---- MODULE Spec2Model ----
(***************************************************************************)
(* Stop-and-wait reliable data transfer (rdt_3_0.py): the Packet codec,    *)
(* the per-engine sequence counter and receive buffer, and the send and    *)
(* receive paths of rdt 1.0, rdt 2.1 and rdt 3.0, run by two endpoints A   *)
(* and B over an unreliable channel that may drop, corrupt or duplicate a  *)
(* frame.                                                                  *)
(*                                                                         *)
(* In the first part a frame on the wire is the record of its four fields. *)
(* The receive buffer is the sequence of the frames it holds; its length   *)
(* in bytes is the sum of their declared lengths.  The second part holds   *)
(* the codec, the buffer and the channel character by character, for the   *)
(* properties of framing.                                                  *)
(***************************************************************************)
EXTENDS Integers, Sequences, FiniteSets, TLC

\* ------------------------------------------------------------ bounds
MaxCalls == 2      \* send calls made by the two applications together
MaxTime == 2       \* clock ticks
MaxFaults == 1     \* frames the channel may drop, corrupt or duplicate
MaxOverlap == 3    \* send calls of the two applications when their calls overlap

\* ------------------------------------------------------------ constants
length_S_length == 10
seq_num_S_length == 10
checksum_length == 32
timeout == 1

Ends == {"A", "B"}
Peer(e) == IF e = "A" THEN "B" ELSE "A"

\* the payloads the applications send, in the order of the send calls
Script == <<"a", "b", "c", "d">>

\* payloads the application chooses from in the scenarios
Payloads == {"a", "b", "c"}

VARIABLES
    seq_num,            \* [Ends -> Nat]      RDT.seq_num of each engine
    byte_buffer,        \* [Ends -> Seq]      RDT.byte_buffer of each engine
    pc,                 \* [Ends -> STRING]   "idle" or the send call in progress
    p,                  \* [Ends -> Seq]      <<packet>> of the send call in progress
    time_of_last_data,  \* [Ends -> Nat]      local of rdt_3_0_send
    now,                \* time.time()
    net,                \* [Ends -> Seq]      frames the channel holds for each endpoint
    faults,             \* Nat                faults the channel may still inject
    forced,             \* "free", or the fault the channel injects as soon as it can
    level,              \* 2 or 3: the protocol level the applications use
    calls,              \* [Ends -> Nat]      send calls made so far
    first,              \* [Ends -> Seq]      <<frame>> first transmitted by the call in progress
    delivered,          \* [Ends -> Seq]      what receive returned to the application
    naks,               \* [Ends -> Nat]      NAK frames transmitted so far (scenarios)
    sent,               \* [Ends -> Nat]      frames transmitted by the latest send call (scenarios)
    last,               \* what the latest step examined, transmitted and returned
    wire                \* the characters fed to the engine under test (second part)

vars == <<seq_num, byte_buffer, pc, p, time_of_last_data, now, net, faults,
          forced, level, calls, first, delivered, naks, sent, last, wire>>

\* ------------------------------------------------------------ Packet
\* hashlib.md5 over the three hashed fields; distinct inputs have distinct digests
MD5(length_S, seq_num_S, msg_S) == <<length_S, seq_num_S, msg_S>>

Packet(sn, msg_S) == [seq_num |-> sn, msg_S |-> msg_S]

get_byte_S(pkt) ==
    LET length == length_S_length + seq_num_S_length + checksum_length + Len(pkt.msg_S)
    IN  [len |-> length,
         seq |-> pkt.seq_num,
         sum |-> MD5(length, pkt.seq_num, pkt.msg_S),
         msg |-> pkt.msg_S]

corrupt(byte_S) == byte_S.sum # MD5(byte_S.len, byte_S.seq, byte_S.msg)

\* defined for frames that are not corrupt (the code raises RuntimeError otherwise)
from_byte_S(byte_S) == Packet(byte_S.seq, byte_S.msg)

\* ------------------------------------------------------------ the channel
\* Network.NetworkLayer: udt_send hands one frame to the channel, which delivers
\* it, loses it, damages it or delivers it twice; udt_receive returns all the
\* frames that have arrived and removes them from the channel.
Kinds == {"drop", "corrupt", "dup"}

XS == <<"X", "XX", "XXX">>

\* a damaged frame: payload bytes overwritten, length and checksum fields as sent
Garble(f) == [f EXCEPT !.msg = XS[Len(f.msg)]]

Fated(tx, fate) ==
    IF tx = <<>> THEN <<>>
    ELSE CASE fate = "ok"      -> tx
           [] fate = "drop"    -> <<>>
           [] fate = "corrupt" -> <<Garble(tx[1])>>
           [] fate = "dup"     -> tx \o tx

Fates(tx) ==
    IF tx = <<>> \/ faults = 0 THEN {"ok"}
    ELSE IF forced = "free" THEN {"ok"} \cup Kinds
    ELSE {forced}

udt_receive(e) == net[e]

\* ------------------------------------------------------------ receive buffer
RECURSIVE BufLen(_)
\* len(self.byte_buffer)
BufLen(buf) == IF buf = <<>> THEN 0 ELSE Head(buf).len + BufLen(Tail(buf))

\* what one step of a call did: the buffer and counter it leaves, the frame it
\* transmitted, what it returned, whether the call returned, the frame it
\* examined, and whether it read the channel
Out(buffer, sn, tx, ret, returned, info, read) ==
    [buffer |-> buffer, seq_num |-> sn, tx |-> tx, ret |-> ret,
     returned |-> returned, info |-> info, read |-> read]

\* ------------------------------------------------------------ rdt 1.0
\* mutant: the counter is advanced before the packet is built
Sent10Next(sn, msg_S) == get_byte_S(Packet(sn + 1, msg_S))

\* "p = Packet(self.seq_num, msg_S)" ... "udt_send(p.get_byte_S())"
Sent10(sn, msg_S) == get_byte_S(Packet(sn, msg_S))

\* mutant: the counter is left alone
After10Stay(sn) == sn

\* "self.seq_num += 1"
After10(sn) == sn + 1

\* "ret_S = p.msg_S if (ret_S is None) else ret_S + p.msg_S"
Joined(ret, msg_S) == IF ret = <<>> THEN <<msg_S>> ELSE <<ret[1] \o msg_S>>

RECURSIVE Extract10(_, _, _, _)
\* the loop of rdt_1_0_receive: every complete frame at the front of the buffer
\* is decoded and removed; from_byte_S raises RuntimeError on a frame that fails
\* the checksum, which ends the call with that frame still in the buffer
Extract10(sn, buf, ret, infos) ==
    IF BufLen(buf) < length_S_length
    THEN Out(buf, sn, <<>>, ret, TRUE, infos, TRUE)
    ELSE LET length == Head(buf).len IN
         IF BufLen(buf) < length
         THEN Out(buf, sn, <<>>, ret, TRUE, infos, TRUE)
         ELSE IF corrupt(Head(buf))
              THEN Out(buf, sn, <<>>, <<>>, FALSE, Append(infos, Head(buf)), TRUE)
              ELSE Extract10(sn, Tail(buf), Joined(ret, from_byte_S(Head(buf)).msg_S),
                             Append(infos, Head(buf)))

\* one call of rdt_1_0_receive
Receive10(sn, byte_buf, byte_S) == Extract10(sn, byte_buf \o byte_S, <<>>, <<>>)

\* ------------------------------------------------------------ rdt 2.1 receive
\* mutant: a duplicate is acknowledged with the expected number
DupAck21Expected(sn, pk) == Packet(sn, "ACK")

\* the ACK sent for a data frame that is not the expected one
DupAck21(sn, pk) == Packet(pk.seq_num, "ACK")

\* mutant: the NAK carries the number of the frame delivered last
Nak21Previous(sn) == Packet(sn - 1, "NAK")

\* the NAK sent for a corrupt frame
Nak21(sn) == Packet(sn, "NAK")

\* mutant: the counter is not advanced on delivery
Deliver21Stay(sn) == sn

\* the counter after delivering an in-sequence data frame
Deliver21(sn) == sn + 1

\* mutant: only a NAK is taken for a control frame
Control21NakOnly(pk) == pk.msg_S = "NAK"

\* "if p.msg_S == 'ACK' or p.msg_S == 'NAK'": the frame is an answer, not data
Control21(pk) == pk.msg_S = "ACK" \/ pk.msg_S = "NAK"

Receive21(sn, byte_buf, byte_S) ==
    LET buf == byte_buf \o byte_S IN
    IF BufLen(buf) < length_S_length
    THEN Out(buf, sn, <<>>, <<>>, TRUE, <<>>, TRUE)
    ELSE LET length == Head(buf).len IN
         IF BufLen(buf) < length
         THEN Out(buf, sn, <<>>, <<>>, TRUE, <<>>, TRUE)
         ELSE LET info == Head(buf)
                  rest == Tail(buf)
              IN  IF ~corrupt(info)
                  THEN LET pk == from_byte_S(info) IN
                       IF Control21(pk)
                       THEN Out(rest, sn, <<>>, <<>>, TRUE, <<info>>, TRUE)
                       ELSE IF pk.seq_num = sn
                       THEN Out(rest, Deliver21(sn), <<get_byte_S(Packet(sn, "ACK"))>>,
                                <<pk.msg_S>>, TRUE, <<info>>, TRUE)
                       ELSE Out(rest, sn, <<get_byte_S(DupAck21(sn, pk))>>,
                                <<>>, TRUE, <<info>>, TRUE)
                  ELSE Out(rest, sn, <<get_byte_S(Nak21(sn))>>, <<>>, TRUE, <<info>>, TRUE)

\* ------------------------------------------------------------ rdt 3.0 receive
\* mutant: a duplicate is acknowledged with the expected number
DupAck30Expected(sn, pk) == Packet(sn, "ACK")

DupAck30(sn, pk) == Packet(pk.seq_num, "ACK")

\* mutant: the NAK carries the number of the frame delivered last
Nak30Previous(sn) == Packet(sn - 1, "NAK")

Nak30(sn) == Packet(sn, "NAK")

\* mutant: the counter alternates between two values as in the textbook protocol
Deliver30Flip(sn) == IF sn = 1 THEN 0 ELSE 1

\* mutant: the counter is not advanced on delivery
Deliver30Stay(sn) == sn

Deliver30(sn) == sn + 1

\* mutant: only a NAK is taken for a control frame
Control30NakOnly(pk) == pk.msg_S = "NAK"

\* "if p.msg_S == 'ACK' or p.msg_S == 'NAK'": the frame is an answer, not data
Control30(pk) == pk.msg_S = "ACK" \/ pk.msg_S = "NAK"

Receive30(sn, byte_buf, byte_S) ==
    LET buf == byte_buf \o byte_S IN
    IF BufLen(buf) < length_S_length
    THEN Out(buf, sn, <<>>, <<>>, TRUE, <<>>, TRUE)
    ELSE LET length == Head(buf).len IN
         IF BufLen(buf) < length
         THEN Out(buf, sn, <<>>, <<>>, TRUE, <<>>, TRUE)
         ELSE LET info == Head(buf)
                  rest == Tail(buf)
              IN  IF ~corrupt(info)
                  THEN LET pk == from_byte_S(info) IN
                       IF Control30(pk)
                       THEN Out(rest, sn, <<>>, <<>>, TRUE, <<info>>, TRUE)
                       ELSE IF pk.seq_num = sn
                       THEN Out(rest, Deliver30(sn), <<get_byte_S(Packet(sn, "ACK"))>>,
                                <<pk.msg_S>>, TRUE, <<info>>, TRUE)
                       ELSE Out(rest, sn, <<get_byte_S(DupAck30(sn, pk))>>,
                                <<>>, TRUE, <<info>>, TRUE)
                  ELSE Out(rest, sn, <<get_byte_S(Nak30(sn))>>, <<>>, TRUE, <<info>>, TRUE)

\* ------------------------------------------------------------ rdt 2.1 send
\* "if msg_S != 'ACK' or msg_S != 'NAK'": whether the call waits for an answer
Listens21(msg_S) == msg_S # "ACK" \/ msg_S # "NAK"

\* mutant: the retransmission is numbered as the next frame
Resend21Next(pkt) == get_byte_S(Packet(pkt.seq_num + 1, pkt.msg_S))

\* the frame sent again on a NAK
Resend21(pkt) == get_byte_S(pkt)

\* mutant: a corrupt answer is answered with a NAK instead of the data frame
ResendCorrupt21Nak(pkt) == get_byte_S(Packet(pkt.seq_num, "NAK"))

\* the frame sent again on a corrupt answer
ResendCorrupt21(pkt) == get_byte_S(pkt)

\* mutant: a pass that finds no complete frame sends the data frame again
Wait21Resend(buf, sn, pkt) == Out(buf, sn, <<get_byte_S(pkt)>>, <<>>, FALSE, <<>>, TRUE)

\* "continue" of a pass that finds no complete frame: rdt_2_1_send has no timer
Wait21(buf, sn, pkt) == Out(buf, sn, <<>>, <<>>, FALSE, <<>>, TRUE)

\* one pass of the wait loop of rdt_2_1_send
Send21(sn, byte_buf, byte_S, pkt) ==
    LET buf == byte_buf \o byte_S IN
    IF BufLen(buf) < length_S_length
    THEN Wait21(buf, sn, pkt)
    ELSE LET length == Head(buf).len IN
         IF BufLen(buf) < length
         THEN Wait21(buf, sn, pkt)
         ELSE LET info == Head(buf)
                  rest == Tail(buf)
              IN  IF ~corrupt(info)
                  THEN LET ac == from_byte_S(info) IN
                       IF ac.msg_S = "NAK"
                       THEN Out(rest, sn, <<Resend21(pkt)>>, <<>>, FALSE, <<info>>, TRUE)
                       ELSE IF ac.msg_S = "ACK"
                       THEN Out(rest, sn + 1, <<>>, <<>>, TRUE, <<info>>, TRUE)
                       ELSE Out(rest, sn, <<>>, <<>>, TRUE, <<info>>, TRUE)
                  ELSE Out(rest, sn, <<ResendCorrupt21(pkt)>>, <<>>, FALSE, <<info>>, TRUE)

\* ------------------------------------------------------------ rdt 3.0 send
Listens30(msg_S) == msg_S # "ACK" \/ msg_S # "NAK"

\* mutant: the timeout is left out of the comparison
TimedOutAtOnce(tlod, t) == tlod < t

\* "if time_of_last_data + timeout < time.time()"
TimedOut(tlod, t) == tlod + timeout < t

Resend30(pkt) == get_byte_S(pkt)

\* mutant: a corrupt answer is answered with a NAK instead of the data frame
ResendCorrupt30Nak(pkt) == get_byte_S(Packet(pkt.seq_num, "NAK"))

ResendCorrupt30(pkt) == get_byte_S(pkt)

\* mutant: the timeout retransmission is numbered as the next frame
ResendTimeout30Next(pkt) == get_byte_S(Packet(pkt.seq_num + 1, pkt.msg_S))

\* the frame sent again when the timer expires
ResendTimeout30(pkt) == get_byte_S(pkt)

\* mutant: the number of an answer is not looked at
Stale30Never(sn, ac) == FALSE

\* "if ac.seq_num != self.seq_num: continue"
Stale30(sn, ac) == ac.seq_num # sn

\* one pass of the wait loop of rdt_3_0_send
Send30(sn, byte_buf, byte_S, pkt, tlod, t) ==
    IF TimedOut(tlod, t)
    THEN Out(<<>>, sn, <<ResendTimeout30(pkt)>>, <<>>, FALSE, <<>>, FALSE)
    ELSE
    LET buf == byte_buf \o byte_S IN
    IF BufLen(buf) < length_S_length
    THEN Out(buf, sn, <<>>, <<>>, FALSE, <<>>, TRUE)
    ELSE LET length == Head(buf).len IN
         IF BufLen(buf) < length
         THEN Out(buf, sn, <<>>, <<>>, FALSE, <<>>, TRUE)
         ELSE LET info == Head(buf)
                  rest == Tail(buf)
              IN  IF ~corrupt(info)
                  THEN LET ac == from_byte_S(info) IN
                       IF ac.msg_S = "NAK"
                       THEN IF Stale30(sn, ac)
                            THEN Out(rest, sn, <<>>, <<>>, FALSE, <<info>>, TRUE)
                            ELSE Out(rest, sn, <<Resend30(pkt)>>, <<>>, FALSE, <<info>>, TRUE)
                       ELSE IF ac.msg_S = "ACK"
                       THEN IF Stale30(sn, ac)
                            THEN Out(rest, sn, <<>>, <<>>, FALSE, <<info>>, TRUE)
                            ELSE Out(rest, sn + 1, <<>>, <<>>, TRUE, <<info>>, TRUE)
                       ELSE Out(rest, sn, <<>>, <<>>, TRUE, <<info>>, TRUE)
                  ELSE Out(rest, sn, <<ResendCorrupt30(pkt)>>, <<>>, FALSE, <<info>>, TRUE)

\* ------------------------------------------------------------ steps
NoStep == [e |-> "A", op |-> "none", info |-> <<>>, tx |-> <<>>, ret |-> <<>>,
           returned |-> FALSE, seq0 |-> 1, cut |-> 0, at |-> 0]

\* nothing is fed character by character in the first part
NoWire == [orig |-> <<>>, frames |-> <<>>, fed |-> 0, reads |-> 0, seen |-> <<>>]

\* the counters naks and sent are kept in the one-fault scenarios only
Counting == forced \in {"drop", "corrupt"}

\* send calls the applications make in a run
CallBound == IF forced = "overlap" THEN MaxOverlap ELSE MaxCalls

\* the effect of one step of endpoint e on the engine, the channel and the record
Step(e, op, out, fate) ==
    /\ fate \in Fates(out.tx)
    /\ seq_num' = [seq_num EXCEPT ![e] = out.seq_num]
    /\ byte_buffer' = [byte_buffer EXCEPT ![e] = out.buffer]
    /\ net' = [net EXCEPT ![e] = IF out.read THEN <<>> ELSE @,
                          ![Peer(e)] = @ \o Fated(out.tx, fate)]
    /\ faults' = IF fate = "ok" THEN faults ELSE faults - 1
    /\ delivered' = [delivered EXCEPT ![e] =
                        IF out.ret = <<>> THEN @
                        ELSE Append(@, [seq |-> out.info[1].seq, msg |-> out.ret[1]])]
    /\ naks' = [naks EXCEPT ![e] =
                   IF ~Counting THEN @
                   ELSE IF out.tx # <<>> /\ out.tx[1].msg = "NAK" THEN @ + 1 ELSE @]
    /\ sent' = [sent EXCEPT ![e] =
                   IF ~Counting THEN @
                   ELSE IF op \in {"rdt_2_1_send", "rdt_3_0_send"} THEN 1
                   ELSE IF op \in {"rdt_2_1_send_loop", "rdt_3_0_send_loop"}
                   THEN @ + Len(out.tx)
                   ELSE @]
    /\ last' = IF out.info = <<>> /\ out.tx = <<>> THEN last
               ELSE [e |-> e, op |-> op, info |-> out.info, tx |-> out.tx,
                     ret |-> out.ret, returned |-> out.returned, seq0 |-> seq_num[e],
                     cut |-> BufLen(byte_buffer[e])
                             + (IF out.read THEN BufLen(udt_receive(e)) ELSE 0)
                             - BufLen(out.buffer),
                     at |-> IF Counting THEN now ELSE 0]
    /\ UNCHANGED <<forced, level, wire>>

\* rdt_1_0_send: build the packet, advance the counter, transmit
rdt_1_0_send(e, msg_S) ==
    /\ level = 1
    /\ pc[e] = "idle"
    /\ calls["A"] + calls["B"] < CallBound
    /\ \E fate \in {"ok"} \cup Kinds :
          Step(e, "rdt_1_0_send",
               Out(byte_buffer[e], After10(seq_num[e]), <<Sent10(seq_num[e], msg_S)>>,
                   <<>>, TRUE, <<>>, FALSE), fate)
    /\ calls' = [calls EXCEPT ![e] = @ + 1]
    /\ UNCHANGED <<pc, p, time_of_last_data, now, first>>

\* rdt_1_0_receive; an exception leaves the caller with a RuntimeError
rdt_1_0_receive(e) ==
    /\ level = 1
    /\ pc[e] = "idle"
    /\ LET out == Receive10(seq_num[e], byte_buffer[e], udt_receive(e)) IN
       /\ Step(e, "rdt_1_0_receive", out, "ok")
       /\ pc' = [pc EXCEPT ![e] = IF out.returned THEN @ ELSE "RuntimeError"]
    /\ UNCHANGED <<p, time_of_last_data, now, calls, first>>

rdt_2_1_receive(e) ==
    /\ level = 2
    /\ pc[e] = "idle"
    /\ \E fate \in {"ok"} \cup Kinds :
          Step(e, "rdt_2_1_receive",
               Receive21(seq_num[e], byte_buffer[e], udt_receive(e)), fate)
    /\ UNCHANGED <<pc, p, time_of_last_data, now, calls, first>>

rdt_3_0_receive(e) ==
    /\ level = 3
    /\ pc[e] = "idle"
    /\ \E fate \in {"ok"} \cup Kinds :
          Step(e, "rdt_3_0_receive",
               Receive30(seq_num[e], byte_buffer[e], udt_receive(e)), fate)
    /\ UNCHANGED <<pc, p, time_of_last_data, now, calls, first>>

\* rdt_2_1_send up to its wait loop: build the packet and transmit it
rdt_2_1_send(e, msg_S) ==
    /\ level = 2
    /\ pc[e] = "idle"
    /\ calls["A"] + calls["B"] < CallBound
    /\ LET pkt == Packet(seq_num[e], msg_S) IN
       /\ p' = [p EXCEPT ![e] = <<pkt>>]
       /\ first' = [first EXCEPT ![e] = <<get_byte_S(pkt)>>]
       /\ pc' = [pc EXCEPT ![e] = IF Listens21(msg_S) THEN "rdt_2_1_send" ELSE "idle"]
       /\ \E fate \in {"ok"} \cup Kinds :
             Step(e, "rdt_2_1_send",
                  Out(byte_buffer[e], seq_num[e], <<get_byte_S(pkt)>>, <<>>,
                      ~Listens21(msg_S), <<>>, FALSE), fate)
    /\ calls' = [calls EXCEPT ![e] = @ + 1]
    /\ UNCHANGED <<time_of_last_data, now>>

\* one pass of the wait loop of rdt_2_1_send
rdt_2_1_send_loop(e) ==
    /\ pc[e] = "rdt_2_1_send"
    /\ LET out == Send21(seq_num[e], byte_buffer[e], udt_receive(e), p[e][1]) IN
       /\ \E fate \in {"ok"} \cup Kinds : Step(e, "rdt_2_1_send_loop", out, fate)
       /\ pc' = [pc EXCEPT ![e] = IF out.returned THEN "idle" ELSE @]
    /\ UNCHANGED <<p, time_of_last_data, now, calls, first>>

\* rdt_3_0_send up to its wait loop: note the time, build the packet, transmit it
rdt_3_0_send(e, msg_S) ==
    /\ level = 3
    /\ pc[e] = "idle"
    /\ calls["A"] + calls["B"] < CallBound
    /\ time_of_last_data' = [time_of_last_data EXCEPT ![e] = now]
    /\ LET pkt == Packet(seq_num[e], msg_S) IN
       /\ p' = [p EXCEPT ![e] = <<pkt>>]
       /\ first' = [first EXCEPT ![e] = <<get_byte_S(pkt)>>]
       /\ pc' = [pc EXCEPT ![e] = IF Listens30(msg_S) THEN "rdt_3_0_send" ELSE "idle"]
       /\ \E fate \in {"ok"} \cup Kinds :
             Step(e, "rdt_3_0_send",
                  Out(byte_buffer[e], seq_num[e], <<get_byte_S(pkt)>>, <<>>,
                      ~Listens30(msg_S), <<>>, FALSE), fate)
    /\ calls' = [calls EXCEPT ![e] = @ + 1]
    /\ UNCHANGED now

\* one pass of the wait loop of rdt_3_0_send
rdt_3_0_send_loop(e) ==
    /\ pc[e] = "rdt_3_0_send"
    /\ LET out == Send30(seq_num[e], byte_buffer[e], udt_receive(e), p[e][1],
                         time_of_last_data[e], now) IN
       /\ \E fate \in {"ok"} \cup Kinds : Step(e, "rdt_3_0_send_loop", out, fate)
       /\ pc' = [pc EXCEPT ![e] = IF out.returned THEN "idle" ELSE @]
       /\ time_of_last_data' = [time_of_last_data EXCEPT ![e] =
                                   IF TimedOut(@, now) THEN now ELSE @]
    /\ UNCHANGED <<p, now, calls, first>>

\* time passes while some rdt_3_0_send is waiting for its timeout
Tick ==
    /\ now < MaxTime
    /\ \E e \in Ends : pc[e] = "rdt_3_0_send" /\ ~TimedOut(time_of_last_data[e], now)
    /\ now' = now + 1
    /\ UNCHANGED <<seq_num, byte_buffer, pc, p, time_of_last_data, net, faults,
                   forced, level, calls, first, delivered, naks, sent, last, wire>>

\* ------------------------------------------------------------ specification
\* the payload of the applications' next send call
NextMsg == Script[((calls["A"] + calls["B"]) % Len(Script)) + 1]

\* two engines just constructed, an empty channel
Start ==
    /\ seq_num = [e \in Ends |-> 1]
    /\ byte_buffer = [e \in Ends |-> <<>>]
    /\ pc = [e \in Ends |-> "idle"]
    /\ p = [e \in Ends |-> <<>>]
    /\ time_of_last_data = [e \in Ends |-> 0]
    /\ now = 0
    /\ net = [e \in Ends |-> <<>>]
    /\ calls = [e \in Ends |-> 0]
    /\ first = [e \in Ends |-> <<>>]
    /\ delivered = [e \in Ends |-> <<>>]
    /\ naks = [e \in Ends |-> 0]
    /\ sent = [e \in Ends |-> 0]
    /\ last = NoStep
    /\ wire = NoWire

Init ==
    /\ Start
    /\ level \in {1, 2, 3}
    /\ forced = "free"
    /\ faults = MaxFaults

Next ==
    \/ \E e \in Ends : rdt_1_0_send(e, NextMsg)
    \/ \E e \in Ends : rdt_1_0_receive(e)
    \/ \E e \in Ends : rdt_2_1_receive(e)
    \/ \E e \in Ends : rdt_3_0_receive(e)
    \/ \E e \in Ends : rdt_2_1_send(e, NextMsg)
    \/ \E e \in Ends : rdt_2_1_send_loop(e)
    \/ \E e \in Ends : rdt_3_0_send(e, NextMsg)
    \/ \E e \in Ends : rdt_3_0_send_loop(e)
    \/ Tick

Spec == Init /\ [][Next]_vars

\* ------------------------------------------------------------ scenarios
\* One exchange at a time: an application calls send only when both engines are
\* idle and nothing is in the channel or the buffers, and the peer keeps
\* calling receive.  The channel injects one fault, into the very first frame
\* transmitted, and delivers every later frame intact.
Quiet == \A e \in Ends : pc[e] = "idle" /\ net[e] = <<>> /\ byte_buffer[e] = <<>>

\* level 2, the first copy of the first data frame is corrupted
InitCorrupt ==
    /\ Start
    /\ level = 2
    /\ forced = "corrupt"
    /\ faults = 1

NextCorrupt ==
    \/ \E e \in Ends, msg_S \in Payloads : Quiet /\ rdt_2_1_send(e, msg_S)
    \/ \E e \in Ends : rdt_2_1_send_loop(e)
    \/ \E e \in Ends : rdt_2_1_receive(e)

\* the wait loop keeps spinning and the peer keeps calling receive
SpecCorrupt ==
    /\ InitCorrupt /\ [][NextCorrupt]_vars
    /\ \A e \in Ends : WF_vars(rdt_2_1_send_loop(e)) /\ WF_vars(rdt_2_1_receive(e))

\* level 3, the first transmission of the first data frame is lost
InitLoss ==
    /\ Start
    /\ level = 3
    /\ forced = "drop"
    /\ faults = 1

NextLoss ==
    \/ \E e \in Ends, msg_S \in Payloads : Quiet /\ rdt_3_0_send(e, msg_S)
    \/ \E e \in Ends : rdt_3_0_send_loop(e)
    \/ \E e \in Ends : rdt_3_0_receive(e)
    \/ Tick

\* the wait loop keeps spinning, the peer keeps calling receive, time passes
SpecLoss ==
    /\ InitLoss /\ [][NextLoss]_vars
    /\ \A e \in Ends : WF_vars(rdt_3_0_send_loop(e)) /\ WF_vars(rdt_3_0_receive(e))
    /\ WF_vars(Tick)

\* level 3, the first copy of the first data frame is corrupted
InitNak ==
    /\ Start
    /\ level = 3
    /\ forced = "corrupt"
    /\ faults = 1

\* the wait loop keeps spinning, the peer keeps calling receive, time passes
SpecNak ==
    /\ InitNak /\ [][NextLoss]_vars
    /\ \A e \in Ends : WF_vars(rdt_3_0_send_loop(e)) /\ WF_vars(rdt_3_0_receive(e))
    /\ WF_vars(Tick)

\* levels 2 and 3, a faultless channel, applications that call send while the
\* peer's call is still in progress
InitOverlap ==
    /\ Start
    /\ level \in {2, 3}
    /\ forced = "overlap"
    /\ faults = 0

NextOverlap ==
    \/ \E e \in Ends : rdt_2_1_send(e, NextMsg)
    \/ \E e \in Ends : rdt_2_1_send_loop(e)
    \/ \E e \in Ends : rdt_2_1_receive(e)
    \/ \E e \in Ends : rdt_3_0_send(e, NextMsg)
    \/ \E e \in Ends : rdt_3_0_send_loop(e)
    \/ \E e \in Ends : rdt_3_0_receive(e)
    \/ Tick

SpecOverlap == InitOverlap /\ [][NextOverlap]_vars

\* levels 2 and 3, a faultless channel, applications that send the strings
\* 'ACK' and 'NAK'
Controls == {"ACK", "NAK"}

InitControl ==
    /\ Start
    /\ level \in {2, 3}
    /\ forced = "control"
    /\ faults = 0

NextControl ==
    \/ \E e \in Ends, msg_S \in Controls : rdt_2_1_send(e, msg_S)
    \/ \E e \in Ends : rdt_2_1_send_loop(e)
    \/ \E e \in Ends : rdt_2_1_receive(e)
    \/ \E e \in Ends, msg_S \in Controls : rdt_3_0_send(e, msg_S)
    \/ \E e \in Ends : rdt_3_0_send_loop(e)
    \/ \E e \in Ends : rdt_3_0_receive(e)
    \/ Tick

SpecControl ==
    /\ InitControl /\ [][NextControl]_vars
    /\ \A e \in Ends : /\ WF_vars(rdt_2_1_send_loop(e)) /\ WF_vars(rdt_2_1_receive(e))
                       /\ WF_vars(rdt_3_0_send_loop(e)) /\ WF_vars(rdt_3_0_receive(e))
    /\ WF_vars(Tick)

\* ------------------------------------------------------------ instances
\* seq_num and byte_buffer are declared in the body of class RDT.  Python reads
\* self.x from the instance when the instance has an attribute x and from the
\* class otherwise; "self.x = v" and "self.x += v" (on an int or a str) bind
\* the attribute x of the instance.  Here the two variables map the class
\* "RDT" and the instances that own the attribute to its value.
RDT == "RDT"

\* mutant: the assignment binds the attribute of the class
setattrOfClass(store, e, v) == [x \in DOMAIN store |-> IF x = RDT THEN v ELSE store[x]]

\* self.x
getattr(store, e) == IF e \in DOMAIN store THEN store[e] ELSE store[RDT]

\* self.x = v
setattr(store, e, v) == [x \in DOMAIN store \cup {e} |-> IF x = e THEN v ELSE store[x]]

\* the effect of one step of instance e: the counter is assigned when it is
\* advanced; the buffer is assigned by every receive call and every pass of a
\* wait loop ("+= byte_S", or "= ''" on a timeout), not by the send half
Method(e, op, out) ==
    /\ seq_num' = IF out.seq_num # getattr(seq_num, e)
                  THEN setattr(seq_num, e, out.seq_num) ELSE seq_num
    /\ byte_buffer' = IF op \in {"rdt_1_0_send", "rdt_2_1_send", "rdt_3_0_send"}
                      THEN byte_buffer ELSE setattr(byte_buffer, e, out.buffer)
    /\ net' = [net EXCEPT ![e] = IF out.read THEN <<>> ELSE @,
                          ![Peer(e)] = @ \o out.tx]
    /\ delivered' = [delivered EXCEPT ![e] =
                        IF out.ret = <<>> THEN @
                        ELSE Append(@, [seq |-> out.info[1].seq, msg |-> out.ret[1]])]
    /\ last' = [e |-> e, op |-> op, info |-> out.info, tx |-> out.tx,
                ret |-> out.ret, returned |-> out.returned,
                seq0 |-> getattr(seq_num, e),
                cut |-> BufLen(getattr(byte_buffer, e))
                        + (IF out.read THEN BufLen(udt_receive(e)) ELSE 0)
                        - BufLen(out.buffer),
                at |-> 0]
    /\ UNCHANGED <<faults, forced, level, naks, sent, wire>>

\* the send half of a call: build the packet from self.seq_num and transmit it
Call(e, op, msg_S, sn, listens) ==
    /\ pc[e] = "idle"
    /\ calls["A"] + calls["B"] < CallBound
    /\ LET pkt == Packet(getattr(seq_num, e), msg_S) IN
       /\ p' = [p EXCEPT ![e] = <<pkt>>]
       /\ first' = [first EXCEPT ![e] = <<get_byte_S(pkt)>>]
       /\ pc' = [pc EXCEPT ![e] = IF listens THEN op ELSE "idle"]
       /\ Method(e, op, Out(getattr(byte_buffer, e), sn, <<get_byte_S(pkt)>>, <<>>,
                            ~listens, <<>>, FALSE))
    /\ calls' = [calls EXCEPT ![e] = @ + 1]
    /\ UNCHANGED now

Instance_rdt_1_0_send(e, msg_S) ==
    /\ level = 1
    /\ Call(e, "rdt_1_0_send", msg_S, After10(getattr(seq_num, e)), FALSE)
    /\ UNCHANGED time_of_last_data

Instance_rdt_2_1_send(e, msg_S) ==
    /\ level = 2
    /\ Call(e, "rdt_2_1_send", msg_S, getattr(seq_num, e), Listens21(msg_S))
    /\ UNCHANGED time_of_last_data

Instance_rdt_3_0_send(e, msg_S) ==
    /\ level = 3
    /\ Call(e, "rdt_3_0_send", msg_S, getattr(seq_num, e), Listens30(msg_S))
    /\ time_of_last_data' = [time_of_last_data EXCEPT ![e] = now]

\* a receive call of the level in use
Instance_receive(e) ==
    /\ pc[e] = "idle"
    /\ LET sn == getattr(seq_num, e)
           buf == getattr(byte_buffer, e)
       IN  CASE level = 1 -> Method(e, "rdt_1_0_receive", Receive10(sn, buf, udt_receive(e)))
             [] level = 2 -> Method(e, "rdt_2_1_receive", Receive21(sn, buf, udt_receive(e)))
             [] level = 3 -> Method(e, "rdt_3_0_receive", Receive30(sn, buf, udt_receive(e)))
    /\ UNCHANGED <<pc, p, time_of_last_data, now, calls, first>>

\* one pass of the wait loop of rdt_2_1_send or rdt_3_0_send
Instance_send_loop(e) ==
    /\ pc[e] \in {"rdt_2_1_send", "rdt_3_0_send"}
    /\ LET sn == getattr(seq_num, e)
           buf == getattr(byte_buffer, e)
           out == IF pc[e] = "rdt_2_1_send"
                  THEN Send21(sn, buf, udt_receive(e), p[e][1])
                  ELSE Send30(sn, buf, udt_receive(e), p[e][1], time_of_last_data[e], now)
       IN  /\ Method(e, pc[e] \o "_loop", out)
           /\ pc' = [pc EXCEPT ![e] = IF out.returned THEN "idle" ELSE @]
    /\ time_of_last_data' = [time_of_last_data EXCEPT ![e] =
                                IF pc[e] = "rdt_3_0_send" /\ TimedOut(@, now) THEN now ELSE @]
    /\ UNCHANGED <<p, now, calls, first>>

\* two instances of RDT made in one process; no instance owns an attribute yet
InitInstances ==
    /\ seq_num = [c \in {RDT} |-> 1]
    /\ byte_buffer = [c \in {RDT} |-> <<>>]
    /\ pc = [e \in Ends |-> "idle"]
    /\ p = [e \in Ends |-> <<>>]
    /\ time_of_last_data = [e \in Ends |-> 0]
    /\ now = 0
    /\ net = [e \in Ends |-> <<>>]
    /\ calls = [e \in Ends |-> 0]
    /\ first = [e \in Ends |-> <<>>]
    /\ delivered = [e \in Ends |-> <<>>]
    /\ naks = [e \in Ends |-> 0]
    /\ sent = [e \in Ends |-> 0]
    /\ last = NoStep
    /\ wire = NoWire
    /\ level \in {1, 2, 3}
    /\ forced = "instances"
    /\ faults = 0

InstanceStep(e) ==
    \/ Instance_rdt_1_0_send(e, NextMsg)
    \/ Instance_rdt_2_1_send(e, NextMsg)
    \/ Instance_rdt_3_0_send(e, NextMsg)
    \/ Instance_receive(e)
    \/ Instance_send_loop(e)

NextInstances ==
    \/ \E e \in Ends : Instance_rdt_1_0_send(e, NextMsg)
    \/ \E e \in Ends : Instance_rdt_2_1_send(e, NextMsg)
    \/ \E e \in Ends : Instance_rdt_3_0_send(e, NextMsg)
    \/ \E e \in Ends : Instance_receive(e)
    \/ \E e \in Ends : Instance_send_loop(e)
    \/ Tick

SpecInstances == InitInstances /\ [][NextInstances]_vars

\* ------------------------------------------------------------ observations
RecvOps == {"rdt_2_1_receive", "rdt_3_0_receive"}
LoopOps == {"rdt_2_1_send_loop", "rdt_3_0_send_loop"}

\* the latest step examined a complete frame
Examined == last.info # <<>>
Info == last.info[1]
IsControl(f) == f.msg = "ACK" \/ f.msg = "NAK"
\* the latest step examined a frame that passes the checksum and carries data
ExaminedData == Examined /\ ~corrupt(Info) /\ ~IsControl(Info)
ExaminedCorrupt == Examined /\ corrupt(Info)
AckFrame(sn) == get_byte_S(Packet(sn, "ACK"))
NakFrame(sn) == get_byte_S(Packet(sn, "NAK"))

\* C6: a receive call that finds a complete frame failing the checksum at the
\* front of the buffer transmits exactly one NAK carrying the engine's current
\* sequence number, returns nothing and leaves the sequence counter unchanged.
C6_ReceiveCorruptNaks ==
    (last.op \in RecvOps /\ ExaminedCorrupt) =>
        /\ last.tx = <<NakFrame(last.seq0)>>
        /\ last.ret = <<>>
        /\ last.returned
        /\ seq_num[last.e] = last.seq0

C6_Witness ==
    /\ last.op = "rdt_3_0_receive" /\ ExaminedCorrupt
    /\ last.seq0 > 1

\* C7: a receive call that finds a non-corrupt data frame carrying the
\* engine's sequence number transmits an ACK with that number, increments the
\* counter by exactly 1 and returns exactly the frame's payload.
C7_ReceiveInSequence ==
    (last.op \in RecvOps /\ ExaminedData /\ Info.seq = last.seq0) =>
        /\ last.tx = <<AckFrame(Info.seq)>>
        /\ seq_num[last.e] = last.seq0 + 1
        /\ last.ret = <<Info.msg>>
        /\ last.returned

C7_Witness ==
    /\ last.op = "rdt_2_1_receive" /\ ExaminedData /\ Info.seq = last.seq0
    /\ last.seq0 > 1

\* C8: a receive call that processes a non-corrupt data frame whose sequence
\* number differs from the engine's counter transmits an ACK carrying the
\* received frame's number, leaves the counter unchanged and returns nothing.
C8_ReceiveOutOfSequence ==
    (last.op \in RecvOps /\ ExaminedData /\ Info.seq # last.seq0) =>
        /\ last.tx = <<AckFrame(Info.seq)>>
        /\ seq_num[last.e] = last.seq0
        /\ last.ret = <<>>
        /\ last.returned

C8_Witness ==
    last.op = "rdt_3_0_receive" /\ ExaminedData /\ Info.seq # last.seq0

\* C9 as stated: while a send waits, a complete frame failing the checksum is
\* discarded and nothing is transmitted, the counter is unchanged and the
\* send keeps waiting.
C9_CorruptIgnored ==
    (last.op \in LoopOps /\ ExaminedCorrupt) =>
        /\ last.tx = <<>>
        /\ seq_num[last.e] = last.seq0
        /\ ~last.returned

\* C9 amended: while a send waits, a complete frame failing the checksum is
\* discarded and the data frame of the call is transmitted again, once and
\* unchanged; the counter is unchanged and the send keeps waiting.
C9_CorruptResends ==
    (last.op \in LoopOps /\ ExaminedCorrupt) =>
        /\ last.tx = first[last.e]
        /\ Len(last.tx) = 1
        /\ last.cut = Info.len
        /\ seq_num[last.e] = last.seq0
        /\ ~last.returned
        /\ pc[last.e] # "idle"

C9_Witness ==
    /\ last.op = "rdt_2_1_send_loop" /\ ExaminedCorrupt
    /\ last.tx # <<>>

\* C10: in rdt_2_1_send a non-corrupt NAK makes the sender transmit again the
\* frame first transmitted in this call, without changing the counter and
\* without returning; and every frame a send call (of either level) transmits
\* after the first is identical to the first.
C10_NakResendsSameFrame ==
    /\ (last.op = "rdt_2_1_send_loop" /\ Examined /\ ~corrupt(Info) /\ Info.msg = "NAK") =>
          /\ last.tx = first[last.e]
          /\ Len(last.tx) = 1
          /\ seq_num[last.e] = last.seq0
          /\ ~last.returned
          /\ pc[last.e] = "rdt_2_1_send"
    /\ (last.op \in LoopOps /\ last.tx # <<>>) => last.tx = first[last.e]

C10_Witness ==
    /\ last.op = "rdt_2_1_send_loop" /\ Examined /\ ~corrupt(Info) /\ Info.msg = "NAK"
    /\ last.tx = first[last.e]

\* deliveries of endpoint e made before the latest step
Earlier(e) ==
    IF last.e = e /\ last.ret # <<>> THEN Len(delivered[e]) - 1 ELSE Len(delivered[e])

\* C2: whatever the channel drops, duplicates or makes the sender repeat, a
\* receive of level 2 or 3 never returns a payload for a sequence number it has
\* returned one for before; a data frame whose number was delivered before is
\* answered with an ACK of that number and nothing is returned.
C2_NoDuplicateDelivery ==
    /\ level \in {2, 3} =>
          \A e \in Ends : \A i, j \in 1..Len(delivered[e]) :
              delivered[e][i].seq = delivered[e][j].seq => i = j
    /\ (/\ last.op \in RecvOps /\ ExaminedData
        /\ \E i \in 1..Earlier(last.e) : delivered[last.e][i].seq = Info.seq) =>
          /\ last.tx = <<AckFrame(Info.seq)>>
          /\ last.ret = <<>>

C2_Witness ==
    /\ last.op = "rdt_3_0_receive" /\ ExaminedData
    /\ \E i \in 1..Earlier(last.e) : delivered[last.e][i] = [seq |-> Info.seq, msg |-> Info.msg]
    /\ last.tx = <<AckFrame(Info.seq)>>

\* C3 as stated: rdt_2_1_send advances the counter only on a non-corrupt ACK
\* whose sequence number is that of the data frame the call sent.
C3_AdvanceOnlyOnMatchingAck ==
    (last.op = "rdt_2_1_send_loop" /\ seq_num[last.e] # last.seq0) =>
        /\ Examined /\ ~corrupt(Info)
        /\ Info.msg = "ACK"
        /\ Info.seq = p[last.e][1].seq_num

\* C4 as stated: a send of level 2 or 3 returns only on a non-corrupt ACK for
\* the frame the call sent; no other decodable frame makes it return.
C4_ReturnOnlyOnMatchingAck ==
    (last.op \in LoopOps /\ last.returned) =>
        /\ Examined /\ ~corrupt(Info)
        /\ Info.msg = "ACK"
        /\ Info.seq = p[last.e][1].seq_num

\* endpoint e made the first send call of the run and the peer none
FirstCallOf(e) == calls[e] = 1 /\ calls[Peer(e)] = 0

\* C1: level 3, the first transmission of a data frame is lost and every later
\* frame arrives intact: the sender transmits the frame again, and only after
\* the timeout has elapsed; the send call eventually returns, and when it does
\* the counter has advanced by exactly 1 and the peer's receive has returned
\* the payload, once.
C1_LossRecovery ==
    /\ [](\A e \in Ends : FirstCallOf(e) =>
            /\ sent[e] >= 2 => now > timeout
            /\ delivered[Peer(e)] # <<>> => sent[e] >= 2
            /\ pc[e] = "idle" =>
                  /\ sent[e] >= 2
                  /\ seq_num[e] = 2
                  /\ delivered[Peer(e)] = <<[seq |-> 1, msg |-> p[e][1].msg_S]>>)
    /\ \A e \in Ends : (FirstCallOf(e) /\ pc[e] = "rdt_3_0_send")
                          ~> (FirstCallOf(e) /\ pc[e] = "idle")

C1_Witness ==
    /\ FirstCallOf("A") /\ pc["A"] = "idle"
    /\ sent["A"] >= 2 /\ seq_num["A"] = 2
    /\ delivered["B"] = <<[seq |-> 1, msg |-> "b"]>>

\* C5: level 2, the first copy of a data frame is corrupted and every other
\* frame arrives intact: the receiver transmits exactly one NAK, the sender
\* transmits the frame once more, the receiver returns the payload exactly
\* once, and the send call returns.
C5_CorruptionRecovery ==
    /\ [](/\ naks["A"] + naks["B"] <= 1
          /\ \A e \in Ends : FirstCallOf(e) =>
                /\ sent[e] <= 2
                /\ Len(delivered[Peer(e)]) <= 1
                /\ pc[e] = "idle" =>
                      /\ naks[Peer(e)] = 1
                      /\ sent[e] = 2
                      /\ seq_num[e] = 2
                      /\ delivered[Peer(e)] = <<[seq |-> 1, msg |-> p[e][1].msg_S]>>)
    /\ \A e \in Ends : (FirstCallOf(e) /\ pc[e] = "rdt_2_1_send")
                          ~> (FirstCallOf(e) /\ pc[e] = "idle")

C5_Witness ==
    /\ FirstCallOf("B") /\ pc["B"] = "idle"
    /\ naks["A"] = 1 /\ sent["B"] = 2
    /\ delivered["A"] = <<[seq |-> 1, msg |-> "a"]>>

\* C11: when more than timeout has passed since time_of_last_data and the call
\* is still waiting, the pass of the wait loop reads nothing from the channel,
\* empties byte_buffer, hands the original frame to the channel once more,
\* sets time_of_last_data to the current time and leaves seq_num alone.
TimeoutStep(e) ==
    /\ pc[e] = "rdt_3_0_send"
    /\ time_of_last_data[e] + timeout < now
    /\ rdt_3_0_send_loop(e)

C11_TimeoutAction ==
    [][\A e \in Ends :
          TimeoutStep(e) =>
              /\ byte_buffer'[e] = <<>>
              /\ net'[e] = net[e]
              /\ last'.e = e /\ last'.op = "rdt_3_0_send_loop"
              /\ last'.info = <<>>
              /\ last'.tx = first[e]
              /\ ~last'.returned
              /\ pc'[e] = "rdt_3_0_send"
              /\ time_of_last_data'[e] = now
              /\ seq_num'[e] = seq_num[e]]_vars

\* a timeout pass that threw buffered bytes away and restarted the timer
C11_Witness ==
    /\ last.op = "rdt_3_0_send_loop" /\ last.info = <<>> /\ last.tx # <<>>
    /\ last.cut > 0
    /\ byte_buffer[last.e] = <<>>
    /\ time_of_last_data[last.e] = now /\ now > timeout

\* C12: rdt_1_0_send hands the channel exactly one frame, which carries the
\* value the counter had before the call and the payload of the call, adds 1 to
\* the counter, reads nothing from the channel and leaves byte_buffer alone.
C12_Send10 ==
    [][\A e \in Ends :
          rdt_1_0_send(e, NextMsg) =>
              /\ last'.e = e /\ last'.op = "rdt_1_0_send"
              /\ last'.tx = <<get_byte_S(Packet(seq_num[e], NextMsg))>>
              /\ seq_num'[e] = seq_num[e] + 1
              /\ net'[e] = net[e]
              /\ byte_buffer'[e] = byte_buffer[e]
              /\ last'.cut = 0]_vars

\* an rdt_1_0_send made while an unread frame of the peer waits in the channel
C12_Witness ==
    /\ last.op = "rdt_1_0_send" /\ last.seq0 = 1 /\ seq_num[last.e] = 2
    /\ last.tx[1].seq = 1 /\ last.tx[1].msg = Script[2]
    /\ net[last.e] # <<>>

\* C19: a call of rdt_2_1_receive or rdt_3_0_receive that examines a frame
\* passing the checksum whose payload is ACK or NAK transmits nothing, returns
\* nothing and leaves the counter alone.
C19_ControlNotAcknowledged ==
    (last.op \in RecvOps /\ Examined /\ ~corrupt(Info) /\ IsControl(Info)) =>
        /\ last.tx = <<>>
        /\ last.ret = <<>>
        /\ seq_num[last.e] = last.seq0

\* an ACK with the number the receiver expects was examined by a receive call
C19_Witness ==
    /\ last.op \in RecvOps /\ Examined /\ ~corrupt(Info) /\ Info.msg = "ACK"
    /\ Info.seq = last.seq0
    /\ last.tx = <<>> /\ last.ret = <<>> /\ seq_num[last.e] = last.seq0

\* C20: the counter of an engine starts at 1 and never decreases; every change
\* adds exactly 1 and is made by rdt_1_0_send, by a send of level 2 or 3 that
\* accepts an ACK, or by a receive of level 2 or 3 that delivers the data frame
\* carrying the expected number.  Passes that examine a NAK, a corrupt frame or
\* a duplicate, and timeout passes, leave it alone.
CounterStep(e) ==
    /\ last'.e = e
    /\ \/ last'.op = "rdt_1_0_send"
       \/ /\ last'.op \in LoopOps
          /\ last'.info # <<>> /\ ~corrupt(last'.info[1]) /\ last'.info[1].msg = "ACK"
       \/ /\ last'.op \in RecvOps
          /\ last'.info # <<>> /\ ~corrupt(last'.info[1]) /\ ~IsControl(last'.info[1])
          /\ last'.info[1].seq = seq_num[e]
          /\ last'.ret = <<last'.info[1].msg>>

C20_CounterMonotone ==
    /\ \A e \in Ends : seq_num[e] = 1
    /\ [][\A e \in Ends :
             seq_num'[e] # seq_num[e] =>
                 (seq_num'[e] = seq_num[e] + 1 /\ CounterStep(e))]_vars

\* both counters have moved: one by an accepted ACK, the other by a delivery
C20_Witness ==
    /\ last.op \in LoopOps /\ Examined /\ ~corrupt(Info) /\ Info.msg = "ACK"
    /\ seq_num[last.e] = last.seq0 + 1
    /\ seq_num[Peer(last.e)] = 2
    /\ delivered[Peer(last.e)] # <<>>

\* ====================================================== second part: characters
\* A string is the sequence of its characters and a character is a tuple of one
\* one-letter string.  An MD5 digest is checksum_length characters: the first is
\* the pair of "md5" and the hashed string, the others are marked with their
\* position, so that 32 characters are the digest of a string exactly when they
\* are a whole digest field computed from that string.  A sequence number is held as its decimal numeral,
\* without leading zeros, because it may be wider than the integers of the
\* checker; lengths are small and are held as integers.
MaxDigits == 11    \* digits of the widest sequence number encoded

Ch(c) == <<c>>
Digits == <<"0", "1", "2", "3", "4", "5", "6", "7", "8", "9">>
DigitOf(d) == Ch(Digits[d + 1])
IsDigit(c) == \E d \in 0..9 : c = DigitOf(d)
DigitVal(c) == CHOOSE d \in 0..9 : c = DigitOf(d)
IsDigits(s) == s # <<>> /\ \A i \in 1..Len(s) : IsDigit(s[i])

\* the strings 'ACK' and 'NAK'
ACK == <<Ch("A"), Ch("C"), Ch("K")>>
NAK == <<Ch("N"), Ch("A"), Ch("K")>>

\* s[a:b] with the index rules of the language: a negative index counts from
\* the end, indices are clipped to the string, an empty range gives ''
Index(s, i) == IF i < 0 THEN (IF Len(s) + i < 0 THEN 0 ELSE Len(s) + i)
               ELSE (IF i > Len(s) THEN Len(s) ELSE i)
Slice(s, a, b) == SubSeq(s, Index(s, a) + 1, Index(s, b))
\* s[a:]
From(s, a) == SubSeq(s, Index(s, a) + 1, Len(s))

RECURSIVE str(_)
\* str(n) of an integer n >= 0
str(n) == IF n < 10 THEN <<DigitOf(n)>> ELSE Append(str(n \div 10), DigitOf(n % 10))

RECURSIVE zfill(_, _)
\* s.zfill(width): zeros are put in front of a shorter s, a longer s is kept whole
zfill(s, width) == IF Len(s) >= width THEN s ELSE zfill(<<Ch("0")>> \o s, width)

\* int(s) accepts digits with an optional minus sign and raises ValueError otherwise
Numeric(s) == IsDigits(s) \/ (Len(s) > 1 /\ s[1] = Ch("-") /\ IsDigits(Tail(s)))

RECURSIVE Val(_)
Val(s) == IF s = <<>> THEN 0 ELSE Val(SubSeq(s, 1, Len(s) - 1)) * 10 + DigitVal(s[Len(s)])

RECURSIVE Strip(_)
\* the numeral of a string of digits: leading zeros removed
Strip(s) == IF Len(s) > 1 /\ s[1] = Ch("0") THEN Strip(Tail(s)) ELSE s
\* a length of more than nine digits is longer than every buffer that occurs and
\* stands for all such lengths
Huge == 1000000000
\* int(s) of a length field
int(s) ==
    LET digits == IF IsDigits(s) THEN Strip(s) ELSE Strip(Tail(s))
        n == IF Len(digits) > 9 THEN Huge ELSE Val(digits)
    IN  IF IsDigits(s) THEN n ELSE 0 - n

\* int(s) of a sequence-number field, as a numeral
Numeral(s) ==
    IF IsDigits(s) THEN Strip(s)
    ELSE IF Strip(Tail(s)) = <<Ch("0")>> THEN <<Ch("0")>> ELSE <<Ch("-")>> \o Strip(Tail(s))

\* hashlib.md5(...).hexdigest()
MD5B(s) == [i \in 1..checksum_length |-> IF i = 1 THEN <<"md5", s>> ELSE <<"md5", i, i>>]

PacketB(seq_num_N, msg_S) == [seq_num |-> seq_num_N, msg_S |-> msg_S]

get_byte_SB(pkt) ==
    LET seq_num_S == zfill(pkt.seq_num, seq_num_S_length)
        length_S == zfill(str(length_S_length + Len(seq_num_S) + checksum_length
                              + Len(pkt.msg_S)), length_S_length)
        checksum_S == MD5B(length_S \o seq_num_S \o pkt.msg_S)
    IN  length_S \o seq_num_S \o checksum_S \o pkt.msg_S

corruptB(byte_S) ==
    LET length_S == Slice(byte_S, 0, length_S_length)
        seq_num_S == Slice(byte_S, length_S_length, seq_num_S_length + seq_num_S_length)
        checksum_S == Slice(byte_S, seq_num_S_length + seq_num_S_length,
                            seq_num_S_length + length_S_length + checksum_length)
        msg_S == From(byte_S, seq_num_S_length + seq_num_S_length + checksum_length)
    IN  checksum_S # MD5B(length_S \o seq_num_S \o msg_S)

\* the packet decoded, or the exception raised
from_byte_SB(byte_S) ==
    LET seq_num_S == Slice(byte_S, length_S_length, length_S_length + seq_num_S_length) IN
    IF corruptB(byte_S)
    THEN [error |-> "RuntimeError", seq_num |-> <<>>, msg_S |-> <<>>]
    ELSE IF ~Numeric(seq_num_S)
    THEN [error |-> "ValueError", seq_num |-> <<>>, msg_S |-> <<>>]
    ELSE [error |-> "", seq_num |-> Numeral(seq_num_S),
          msg_S |-> From(byte_S, length_S_length + seq_num_S_length + checksum_length)]

\* ------------------------------------------------------------ the codec alone
\* 10^(k-1) and 10^k - 1 as numerals with k digits
TenTo(k) == [i \in 1..k |-> IF i = 1 THEN Ch("1") ELSE Ch("0")]
Nines(k) == [i \in 1..k |-> Ch("9")]
SeqNumerals == {TenTo(k) : k \in 1..MaxDigits} \cup {Nines(k) : k \in 1..MaxDigits}
Messages == {<<>>, <<Ch("a")>>, <<Ch("a"), Ch("b")>>, <<Ch("7")>>, ACK}

\* a packet is built, encoded and decoded again
InitCodec ==
    /\ seq_num = [e \in Ends |-> 1]
    /\ byte_buffer = [e \in Ends |-> <<>>]
    /\ pc = [e \in Ends |-> IF e = "A" THEN "Packet" ELSE "idle"]
    /\ \E sn \in SeqNumerals, msg_S \in Messages :
          p = [e \in Ends |-> IF e = "A" THEN <<PacketB(sn, msg_S)>> ELSE <<>>]
    /\ time_of_last_data = [e \in Ends |-> 0]
    /\ now = 0
    /\ net = [e \in Ends |-> <<>>]
    /\ faults = 0
    /\ forced = "codec"
    /\ level = 0
    /\ calls = [e \in Ends |-> 0]
    /\ first = [e \in Ends |-> <<>>]
    /\ delivered = [e \in Ends |-> <<>>]
    /\ naks = [e \in Ends |-> 0]
    /\ sent = [e \in Ends |-> 0]
    /\ last = NoStep
    /\ wire = NoWire

GetByteS ==
    /\ pc["A"] = "Packet"
    /\ first' = [first EXCEPT !["A"] = <<get_byte_SB(p["A"][1])>>]
    /\ pc' = [pc EXCEPT !["A"] = "get_byte_S"]
    /\ UNCHANGED <<seq_num, byte_buffer, p, time_of_last_data, now, net, faults,
                   forced, level, calls, delivered, naks, sent, last, wire>>

FromByteS ==
    /\ pc["A"] = "get_byte_S"
    /\ last' = [e |-> "A", op |-> "from_byte_S", result |-> from_byte_SB(first["A"][1])]
    /\ pc' = [pc EXCEPT !["A"] = "from_byte_S"]
    /\ UNCHANGED <<seq_num, byte_buffer, p, time_of_last_data, now, net, faults,
                   forced, level, calls, first, delivered, naks, sent, wire>>

NextCodec == GetByteS \/ FromByteS

SpecCodec == InitCodec /\ [][NextCodec]_vars

\* C16: for every sequence number and payload, from_byte_S of get_byte_S of the
\* packet succeeds and gives back the sequence number and the payload, also
\* when the sequence number has more digits than the sequence-number field.
C16_RoundTrip ==
    last.op = "from_byte_S" =>
        last.result = [error |-> "", seq_num |-> p["A"][1].seq_num,
                       msg_S |-> p["A"][1].msg_S]

\* ------------------------------------------------------------ the loops, by character
\* what one call or one pass did: as Out, with the frames it examined in order,
\* the exception it raised ("" if none), and whether the frame examined last
\* was left in the buffer
OutB(buffer, sn, tx, ret, returned, info, error, stuck) ==
    [buffer |-> buffer, seq_num |-> sn, tx |-> tx, ret |-> ret, returned |-> returned,
     info |-> info, error |-> error, stuck |-> stuck]

\* "self.byte_buffer[:Packet.length_S_length]"
LengthField(buf) == Slice(buf, 0, length_S_length)

\* mutant: only the length field is waited for
Short30OfHeader(buf, length) == Len(buf) < length_S_length

\* "if len(self.byte_buffer) < length": the frame is not complete yet
Short30(buf, length) == Len(buf) < length

\* mutant: the buffer is emptied when a frame is taken out
Rest30Clear(buf, length) == <<>>

\* "self.byte_buffer = self.byte_buffer[length:]"
Rest30(buf, length) == From(buf, length)

\* one call of rdt_3_0_receive
Receive30B(sn, byte_buf, byte_S) ==
    LET buf == byte_buf \o byte_S IN
    IF Len(buf) < length_S_length
    THEN OutB(buf, sn, <<>>, <<>>, TRUE, <<>>, "", FALSE)
    ELSE IF ~Numeric(LengthField(buf))
    THEN OutB(buf, sn, <<>>, <<>>, FALSE, <<>>, "ValueError", FALSE)
    ELSE LET length == int(LengthField(buf)) IN
         IF Short30(buf, length)
         THEN OutB(buf, sn, <<>>, <<>>, TRUE, <<>>, "", FALSE)
         ELSE LET info == Slice(buf, 0, length)
                  rest == Rest30(buf, length)
              IN  IF ~corruptB(info)
                  THEN LET pk == from_byte_SB(info) IN
                       IF pk.error # ""
                       THEN OutB(rest, sn, <<>>, <<>>, FALSE, <<info>>, pk.error, FALSE)
                       ELSE IF pk.msg_S = ACK \/ pk.msg_S = NAK
                       THEN OutB(rest, sn, <<>>, <<>>, TRUE, <<info>>, "", FALSE)
                       ELSE IF pk.seq_num = str(sn)
                       THEN OutB(rest, sn + 1, <<get_byte_SB(PacketB(str(sn), ACK))>>,
                                 <<pk.msg_S>>, TRUE, <<info>>, "", FALSE)
                       ELSE OutB(rest, sn, <<get_byte_SB(PacketB(pk.seq_num, ACK))>>,
                                 <<>>, TRUE, <<info>>, "", FALSE)
                  ELSE OutB(rest, sn, <<get_byte_SB(PacketB(str(sn), NAK))>>,
                            <<>>, TRUE, <<info>>, "", FALSE)

\* one pass of the wait loop of rdt_3_0_send before its timer expires
Send30B(sn, byte_buf, byte_S, pkt) ==
    LET buf == byte_buf \o byte_S IN
    IF Len(buf) < length_S_length
    THEN OutB(buf, sn, <<>>, <<>>, FALSE, <<>>, "", FALSE)
    ELSE IF ~Numeric(LengthField(buf))
    THEN OutB(buf, sn, <<>>, <<>>, FALSE, <<>>, "ValueError", FALSE)
    ELSE LET length == int(LengthField(buf)) IN
         IF Len(buf) < length
         THEN OutB(buf, sn, <<>>, <<>>, FALSE, <<>>, "", FALSE)
         ELSE LET info == Slice(buf, 0, length)
                  rest == From(buf, length)
              IN  IF ~corruptB(info)
                  THEN LET ac == from_byte_SB(info) IN
                       IF ac.error # ""
                       THEN OutB(buf, sn, <<>>, <<>>, FALSE, <<info>>, ac.error, TRUE)
                       ELSE IF ac.msg_S = NAK
                       THEN IF ac.seq_num # str(sn)
                            THEN OutB(rest, sn, <<>>, <<>>, FALSE, <<info>>, "", FALSE)
                            ELSE OutB(rest, sn, <<get_byte_SB(pkt)>>, <<>>, FALSE,
                                      <<info>>, "", FALSE)
                       ELSE IF ac.msg_S = ACK
                       THEN IF ac.seq_num # str(sn)
                            THEN OutB(rest, sn, <<>>, <<>>, FALSE, <<info>>, "", FALSE)
                            ELSE OutB(rest, sn + 1, <<>>, <<>>, TRUE, <<info>>, "", FALSE)
                       ELSE OutB(rest, sn, <<>>, <<>>, TRUE, <<info>>, "", FALSE)
                  ELSE OutB(rest, sn, <<get_byte_SB(pkt)>>, <<>>, FALSE, <<info>>, "", FALSE)

\* "ret_S = p.msg_S if (ret_S is None) else ret_S + p.msg_S"
JoinedB(ret, msg_S) == IF ret = <<>> THEN <<msg_S>> ELSE <<ret[1] \o msg_S>>

RECURSIVE Extract10B(_, _, _, _)
\* the loop of rdt_1_0_receive; from_byte_S is called before the frame is removed
Extract10B(sn, buf, ret, infos) ==
    IF Len(buf) < length_S_length
    THEN OutB(buf, sn, <<>>, ret, TRUE, infos, "", FALSE)
    ELSE IF ~Numeric(LengthField(buf))
    THEN OutB(buf, sn, <<>>, <<>>, FALSE, infos, "ValueError", FALSE)
    ELSE LET length == int(LengthField(buf)) IN
         IF Len(buf) < length
         THEN OutB(buf, sn, <<>>, ret, TRUE, infos, "", FALSE)
         ELSE LET info == Slice(buf, 0, length)
                  pk == from_byte_SB(info)
              IN  IF pk.error # ""
                  THEN OutB(buf, sn, <<>>, <<>>, FALSE, Append(infos, info), pk.error, TRUE)
                  ELSE Extract10B(sn, From(buf, length), JoinedB(ret, pk.msg_S),
                                  Append(infos, info))

\* one call of rdt_1_0_receive
Receive10B(sn, byte_buf, byte_S) == Extract10B(sn, byte_buf \o byte_S, <<>>, <<>>)

RECURSIVE DraftExtract21(_, _, _, _, _)
\* the loop of rdt_2_1_receive of RDT.py: an in-sequence frame is answered with
\* a copy of itself and the loop goes on; an out-of-sequence frame is answered
\* with an ACK and the call returns with the frame still in the buffer; a
\* corrupt frame is removed and answered with a NAK and the loop goes on, for
\* ever ("hang") when removing it removes nothing
DraftExtract21(sn, buf, ret, infos, txs) ==
    IF Len(buf) < length_S_length
    THEN OutB(buf, sn, txs, ret, TRUE, infos, "", FALSE)
    ELSE IF ~Numeric(LengthField(buf))
    THEN OutB(buf, sn, txs, <<>>, FALSE, infos, "ValueError", FALSE)
    ELSE LET length == int(LengthField(buf)) IN
         IF Len(buf) < length
         THEN OutB(buf, sn, txs, ret, TRUE, infos, "", FALSE)
         ELSE LET info == Slice(buf, 0, length)
                  rest == From(buf, length)
              IN  IF ~corruptB(info)
                  THEN LET pk == from_byte_SB(info) IN
                       IF pk.error # ""
                       THEN OutB(buf, sn, txs, <<>>, FALSE, Append(infos, info),
                                 pk.error, TRUE)
                       ELSE IF pk.seq_num = str(sn)
                       THEN DraftExtract21(sn + 1, rest, <<pk.msg_S>>, Append(infos, info),
                                           Append(txs, get_byte_SB(pk)))
                       ELSE OutB(buf, sn,
                                 Append(txs, get_byte_SB(PacketB(pk.seq_num, ACK))),
                                 ret, TRUE, Append(infos, info), "", TRUE)
                  ELSE IF rest = buf
                       THEN OutB(buf, sn, Append(txs, get_byte_SB(PacketB(str(sn), NAK))),
                                 <<>>, FALSE, Append(infos, info), "hang", TRUE)
                       ELSE DraftExtract21(sn, rest, ret, Append(infos, info),
                                           Append(txs, get_byte_SB(PacketB(str(sn), NAK))))

\* one call of rdt_2_1_receive of RDT.py
DraftReceive21(sn, byte_buf, byte_S) ==
    DraftExtract21(sn, byte_buf \o byte_S, <<>>, <<>>, <<>>)

\* ------------------------------------------------------------ framing
\* Engine B is fed, in chunks of any size, the characters of up to MaxFrames
\* frames its peer transmitted; the channel may have damaged the first of
\* them.  B keeps calling rdt_1_0_receive (level 1), rdt_2_1_receive of RDT.py
\* (level 2) or rdt_3_0_receive (level 3), or is inside the wait loop of
\* rdt_3_0_send for the packet numbered 1 and is fed answers to it.
MaxFrames == 2     \* frames fed to the engine
MaxReads == 2      \* channel reads counted (the last value stands for "or more")

DataFrames == {get_byte_SB(PacketB(str(1), <<Ch("a")>>)),
               get_byte_SB(PacketB(str(2), <<Ch("b")>>))}
Answers == {get_byte_SB(PacketB(str(1), NAK)), get_byte_SB(PacketB(str(1), ACK))}
SeqsOf(S) == UNION {[1..n -> S] : n \in 1..MaxFrames}

\* what the channel may do to a frame: nothing, overwrite a payload character,
\* overwrite a digit of the length field, zero the length, put a sign in front
Damages == {"none", "payload", "digit", "zero", "minus"}
Damage(f, kind) ==
    CASE kind = "none"    -> f
      [] kind = "payload" -> [f EXCEPT ![Len(f)] = Ch("X")]
      [] kind = "digit"   -> [f EXCEPT ![length_S_length] = Ch("X")]
      [] kind = "zero"    -> [f EXCEPT ![length_S_length - 1] = Ch("0"),
                                       ![length_S_length] = Ch("0")]
      [] kind = "minus"   -> [f EXCEPT ![1] = Ch("-")]

RECURSIVE Concat(_)
Concat(fs) == IF fs = <<>> THEN <<>> ELSE Head(fs) \o Concat(Tail(fs))

InitBytes ==
    /\ level \in {1, 2, 3}
    /\ forced = "bytes"
    /\ faults = 0
    /\ seq_num = [e \in Ends |-> 1]
    /\ byte_buffer = [e \in Ends |-> <<>>]
    /\ \E mode \in (IF level = 3 THEN {"idle", "rdt_3_0_send"} ELSE {"idle"}) :
          /\ pc = [e \in Ends |-> IF e = "B" THEN mode ELSE "idle"]
          /\ p = [e \in Ends |-> IF e = "B" /\ mode # "idle"
                                 THEN <<PacketB(str(1), <<Ch("a")>>)>> ELSE <<>>]
          /\ \E fs \in SeqsOf(IF mode = "idle" THEN DataFrames ELSE Answers),
                kind \in Damages :
                wire = [orig |-> fs, frames |-> [fs EXCEPT ![1] = Damage(@, kind)],
                        fed |-> 0, reads |-> 0, seen |-> <<>>]
    /\ net = [e \in Ends |-> IF e = "B" THEN Concat(wire.frames) ELSE <<>>]
    /\ time_of_last_data = [e \in Ends |-> 0]
    /\ now = 0
    /\ calls = [e \in Ends |-> 0]
    /\ first = [e \in Ends |-> <<>>]
    /\ delivered = [e \in Ends |-> <<>>]
    /\ naks = [e \in Ends |-> 0]
    /\ sent = [e \in Ends |-> 0]
    /\ last = NoStep

\* how the buffer starts when a call looks at it
HeadOf(buf) ==
    IF Len(buf) < length_S_length THEN "short"
    ELSE IF ~Numeric(LengthField(buf)) THEN "malformed"
    ELSE IF int(LengthField(buf)) <= 0 THEN "malformed"
    ELSE IF Len(buf) < int(LengthField(buf)) THEN "incomplete"
    ELSE "frame"

NonEmpty(f) == f # <<>>
\* the frames a call examined and removed from the buffer
Taken(out) ==
    SelectSeq(IF out.stuck THEN SubSeq(out.info, 1, Len(out.info) - 1) ELSE out.info,
              NonEmpty)

\* udt_receive hands over the next k characters; the call or pass acts on them
Feed(op, out, k) ==
    /\ seq_num' = [seq_num EXCEPT !["B"] = out.seq_num]
    /\ byte_buffer' = [byte_buffer EXCEPT !["B"] = out.buffer]
    /\ net' = [net EXCEPT !["B"] = SubSeq(@, k + 1, Len(@))]
    /\ pc' = [pc EXCEPT !["B"] = IF out.error # "" THEN out.error
                                  ELSE IF out.returned THEN "idle" ELSE @]
    /\ last' = [e |-> "B", op |-> op, info |-> out.info, tx |-> out.tx, ret |-> out.ret,
                returned |-> out.returned, error |-> out.error, seq0 |-> seq_num["B"],
                cut |-> Len(byte_buffer["B"]) + k - Len(out.buffer),
                head |-> HeadOf(byte_buffer["B"] \o SubSeq(net["B"], 1, k))]
    /\ wire' = [wire EXCEPT !.fed = @ + k,
                            !.reads = IF k > 0 /\ @ < MaxReads THEN @ + 1 ELSE @,
                            !.seen = @ \o Taken(out)]
    /\ UNCHANGED <<p, time_of_last_data, now, faults, forced, level, calls, first,
                   delivered, naks, sent>>

\* the sizes of the chunks udt_receive returns: nothing, one character, the
\* length field, most of a frame, a frame, or everything that has arrived
Chunks == {0, 1, 10, 43, 53}
Reads(e) == {k \in 0..Len(net[e]) : k \in Chunks \/ k = Len(net[e])}

rdt_1_0_receive_B ==
    /\ level = 1 /\ pc["B"] = "idle"
    /\ \E k \in Reads("B") :
          Feed("rdt_1_0_receive",
               Receive10B(seq_num["B"], byte_buffer["B"], SubSeq(net["B"], 1, k)), k)

rdt_2_1_receive_draft ==
    /\ level = 2 /\ pc["B"] = "idle"
    /\ \E k \in Reads("B") :
          Feed("RDT.rdt_2_1_receive",
               DraftReceive21(seq_num["B"], byte_buffer["B"], SubSeq(net["B"], 1, k)), k)

rdt_3_0_receive_B ==
    /\ level = 3 /\ pc["B"] = "idle"
    /\ \E k \in Reads("B") :
          Feed("rdt_3_0_receive",
               Receive30B(seq_num["B"], byte_buffer["B"], SubSeq(net["B"], 1, k)), k)

rdt_3_0_send_loop_B ==
    /\ level = 3 /\ pc["B"] = "rdt_3_0_send"
    /\ \E k \in Reads("B") :
          Feed("rdt_3_0_send_loop",
               Send30B(seq_num["B"], byte_buffer["B"], SubSeq(net["B"], 1, k), p["B"][1]), k)

NextBytes ==
    \/ rdt_1_0_receive_B
    \/ rdt_2_1_receive_draft
    \/ rdt_3_0_receive_B
    \/ rdt_3_0_send_loop_B

SpecBytes == InitBytes /\ [][NextBytes]_vars

\* ------------------------------------------------------------ framing observed
\* the characters the channel holds for B or has handed over, in order
Stream == Concat(wire.frames)

RECURSIVE End(_)
\* the number of characters up to the end of the i-th frame fed
End(i) == IF i = 0 THEN 0 ELSE End(i - 1) + Len(wire.frames[i])

\* the number of frames whose last character has been handed over
Complete == Cardinality({i \in 1..Len(wire.frames) : End(i) <= wire.fed})

\* the channel damaged nothing
Clean == wire.frames = wire.orig

\* frames examined before the latest call
Before == Len(wire.seen) - Len(last.info)

\* the payload characters of a frame
PayloadOf(f) == From(f, length_S_length + seq_num_S_length + checksum_length)
PayloadsOf(fs) == Concat([i \in 1..Len(fs) |-> PayloadOf(fs[i])])

ByteOps == {"rdt_1_0_receive", "RDT.rdt_2_1_receive", "rdt_3_0_receive", "rdt_3_0_send_loop"}

\* C13: a call of rdt_1_0_receive reads the channel once and returns the
\* payloads, joined in buffer order, of every complete frame in the buffer
\* (nothing if there is none); exactly those frames are removed, the characters
\* of an incomplete frame stay behind, and the counter is not touched.
C13_Receive10 ==
    last.op = "rdt_1_0_receive" =>
        /\ last.error = "" /\ last.returned
        /\ wire.seen = SubSeq(wire.frames, 1, Complete)
        /\ last.info = SubSeq(wire.frames, Before + 1, Complete)
        /\ last.ret = (IF last.info = <<>> THEN <<>> ELSE <<PayloadsOf(last.info)>>)
        /\ byte_buffer["B"] = SubSeq(Stream, End(Complete) + 1, wire.fed)
        /\ last.tx = <<>>
        /\ seq_num["B"] = last.seq0

\* C14: while the characters of an undamaged frame arrive in fragments,
\* rdt_1_0_receive and rdt_3_0_receive examine nothing, return nothing and keep
\* every fragment; the call that gets the last fragment takes out the frame,
\* character for character the one that was sent, and nothing else is lost.
C14_Fragmentation ==
    (last.op \in {"rdt_1_0_receive", "rdt_3_0_receive"} /\ Clean) =>
        /\ wire.seen = SubSeq(wire.orig, 1, Len(wire.seen))
        /\ byte_buffer["B"] = SubSeq(Stream, End(Len(wire.seen)) + 1, wire.fed)
        /\ IF Complete = Before
           THEN /\ last.info = <<>> /\ last.ret = <<>> /\ last.tx = <<>>
                /\ last.cut = 0
                /\ seq_num["B"] = last.seq0
           ELSE /\ last.info # <<>>
                /\ last.info[1] = wire.orig[Before + 1]
                /\ last.cut = Len(Concat(last.info))

\* a frame that arrived in MaxReads or more fragments is taken out whole
C14_Witness ==
    /\ level = 3 /\ last.op = "rdt_3_0_receive" /\ Clean
    /\ wire.reads = MaxReads /\ wire.fed = End(1)
    /\ last.info = <<wire.orig[1]>> /\ wire.seen = <<wire.orig[1]>>
    /\ last.ret = <<PayloadOf(wire.orig[1])>>
    /\ byte_buffer["B"] = <<>>

\* C15: when two or more complete undamaged frames are in the buffer of one
\* call, rdt_1_0_receive takes all of them out in order and returns their
\* payloads joined; rdt_3_0_receive takes out the first one only and leaves the
\* next one whole at the front of the buffer, where the next call finds it.
C15_Concatenation ==
    (last.op \in {"rdt_1_0_receive", "rdt_3_0_receive"} /\ Clean) =>
        /\ (Complete - Before >= 2 /\ level = 1) =>
              /\ last.info = SubSeq(wire.orig, Before + 1, Complete)
              /\ last.ret = <<PayloadsOf(SubSeq(wire.orig, Before + 1, Complete))>>
        /\ (Complete - Before >= 2 /\ level = 3) =>
              /\ last.info = <<wire.orig[Before + 1]>>
              /\ Len(byte_buffer["B"]) >= Len(wire.orig[Before + 2])
              /\ SubSeq(byte_buffer["B"], 1, Len(wire.orig[Before + 2])) = wire.orig[Before + 2]
        /\ (Complete - Before >= 1 /\ level = 3) =>
              /\ last.info = <<wire.orig[Before + 1]>>
              /\ last.cut = Len(wire.orig[Before + 1])

\* one read brought two frames; the second call, reading nothing, took out the second
C15_Witness ==
    /\ level = 3 /\ last.op = "rdt_3_0_receive" /\ Clean
    /\ Len(wire.orig) = 2 /\ wire.reads = 1 /\ wire.fed = End(2)
    /\ wire.seen = wire.orig
    /\ last.info = <<wire.orig[2]>>
    /\ last.ret = <<PayloadOf(wire.orig[2])>>
    /\ seq_num["B"] = 3

\* C17: when the first ten characters of the buffer are not a decimal number,
\* or are a number that is zero or negative, a receive call or a pass of a send
\* loop raises nothing, examines no frame, transmits nothing and leaves the
\* buffer and the counter as they are.
C17_MalformedLength ==
    (last.op \in ByteOps /\ last.head = "malformed") =>
        /\ last.error = ""
        /\ last.info = <<>>
        /\ last.tx = <<>>
        /\ last.cut = 0
        /\ seq_num["B"] = last.seq0

\* C18: a call or pass that finds a complete frame at the front of the buffer
\* removes, for every frame it examines, exactly the characters of that frame
\* before it examines the next one or returns.
C18_ExactConsumption ==
    (last.op \in ByteOps /\ last.head = "frame" /\ last.error = "") =>
        last.cut = Len(Concat(last.info))

\* ====================================================== further properties
\* C22: at every level no call raises an error to its caller because a
\* complete frame fails the checksum, and no receive returns the payload of a
\* frame that fails the checksum.
C22_NeverSurfaced ==
    /\ \A e \in Ends : pc[e] # "RuntimeError"
    /\ last.ret # <<>> => \A i \in 1..Len(last.info) : ~corrupt(last.info[i])

\* C25: a pass of the rdt_3_0_send wait loop that examines an ACK or a NAK which
\* passes the checksum and carries another number than the counter removes the
\* frame, transmits nothing, keeps the counter and stays in the loop.
C25_StaleIgnored ==
    (/\ last.op = "rdt_3_0_send_loop" /\ Examined /\ ~corrupt(Info) /\ IsControl(Info)
     /\ Info.seq # last.seq0) =>
        /\ last.tx = <<>>
        /\ ~last.returned
        /\ last.cut = Info.len
        /\ seq_num[last.e] = last.seq0
        /\ pc[last.e] = "rdt_3_0_send"

\* a stale ACK and a stale NAK are both examined by waiting senders
C25_Witness ==
    /\ last.op = "rdt_3_0_send_loop" /\ Examined /\ ~corrupt(Info) /\ Info.msg = "ACK"
    /\ Info.seq = 1 /\ last.seq0 = 2
    /\ last.tx = <<>> /\ pc[last.e] = "rdt_3_0_send" /\ seq_num[last.e] = 2

\* C28: at level 3, whenever rdt_3_0_send returns, the payload of the call has
\* been returned to the peer's application by a receive call; and when both
\* engines are idle and the channel is empty their counters are equal.
C28_ReliableOnReturn ==
    /\ (level = 3 /\ last.op = "rdt_3_0_send_loop" /\ last.returned) =>
          \E i \in 1..Len(delivered[Peer(last.e)]) :
              delivered[Peer(last.e)][i] = [seq |-> first[last.e][1].seq,
                                            msg |-> first[last.e][1].msg]
    /\ (level = 3 /\ \A e \in Ends : pc[e] = "idle" /\ net[e] = <<>>) =>
          seq_num["A"] = seq_num["B"]

\* C29: a send call of level 2 or 3 never uses the sequence number of the
\* engine's previous send call for a different payload.
C29_NumbersIdentifyPayloads ==
    [][\A e \in Ends :
          ((rdt_2_1_send(e, NextMsg) \/ rdt_3_0_send(e, NextMsg)) /\ first[e] # <<>>) =>
              (first'[e][1].seq = first[e][1].seq => first'[e][1].msg = first[e][1].msg)]_vars

\* C30: the buffer emptied by a timeout pass of rdt_3_0_send holds no complete
\* frame that has not been examined.
C30_TimeoutKeepsFrames ==
    (last.op = "rdt_3_0_send_loop" /\ last.info = <<>> /\ last.tx # <<>>) => last.cut = 0

\* C23: rdt_2_1_send has no timer.  A pass of its wait loop transmits only when
\* it examines a complete frame, and a pass made while nothing has arrived
\* (empty channel, empty buffer) transmits nothing, does not return and changes
\* nothing, so a sender whose data frame was dropped waits for ever.
C23_NoTimer ==
    [][\A e \in Ends : rdt_2_1_send_loop(e) =>
          /\ net'[Peer(e)] # net[Peer(e)] =>
                (last'.e = e /\ last'.op = "rdt_2_1_send_loop" /\ last'.info # <<>>)
          /\ (net[e] = <<>> /\ byte_buffer[e] = <<>>) =>
                (pc'[e] = "rdt_2_1_send" /\ UNCHANGED <<net, seq_num, byte_buffer, last>>)]_vars

\* the data frame of A's call was dropped and nothing is in flight
C23_Witness ==
    /\ level = 2 /\ pc["A"] = "rdt_2_1_send" /\ pc["B"] = "idle"
    /\ last.e = "A" /\ last.op = "rdt_2_1_send"
    /\ faults < MaxFaults
    /\ \A e \in Ends : net[e] = <<>> /\ byte_buffer[e] = <<>>
    /\ ENABLED rdt_2_1_send_loop("A")

\* C24: the timeout of rdt_3_0_send is measured from the most recent
\* transmission of the data frame: when a timeout pass follows a transmission
\* of the data frame by the same call, made at time last.at for whatever reason,
\* a timeout period has passed since that transmission.
C24_TimerBase ==
    [][\A e \in Ends :
          (/\ TimeoutStep(e)
           /\ last.e = e /\ last.op \in {"rdt_3_0_send", "rdt_3_0_send_loop"}
           /\ last.tx # <<>>) => TimedOut(last.at, now)]_vars

\* C26: a call of rdt_2_1_send or rdt_3_0_send with the message 'ACK' or 'NAK'
\* transmits the frame once and returns without entering the wait loop: the
\* call is over after the transmission, the counter is unchanged, and the engine
\* never reads the channel or retransmits on behalf of that call.
C26_ControlSendReturns ==
    /\ \A e \in Ends : (p[e] # <<>> /\ p[e][1].msg_S \in Controls) => pc[e] = "idle"
    /\ (last.op \in LoopOps /\ last.tx # <<>>) => last.tx[1].msg \notin Controls

\* C27: in rdt_2_1_receive of RDT.py the frame transmitted in response to a
\* data frame that passes the checksum and carries the expected sequence number
\* is the ACK frame with that number, not a copy of the data frame.
C27_DraftAcknowledges ==
    (/\ last.op = "RDT.rdt_2_1_receive"
     /\ last.info # <<>> /\ last.tx # <<>>
     /\ ~corruptB(last.info[1])
     /\ from_byte_SB(last.info[1]).error = ""
     /\ from_byte_SB(last.info[1]).seq_num = str(last.seq0)) =>
        last.tx[1] = get_byte_SB(PacketB(str(last.seq0), ACK))

\* C21: with two RDT instances in one process, no send or receive step of one
\* instance changes the sequence counter or the receive buffer the other
\* instance observes, and the attributes of the class keep their values.
C21_InstanceIndependence ==
    /\ seq_num[RDT] = 1 /\ byte_buffer[RDT] = <<>>
    /\ [][\A e \in Ends : InstanceStep(e) =>
             /\ getattr(seq_num', Peer(e)) = getattr(seq_num, Peer(e))
             /\ getattr(byte_buffer', Peer(e)) = getattr(byte_buffer, Peer(e))]_vars

\* an instance has advanced its counter and cut its buffer while the other one
\* still reads both attributes from the class
C21_Witness ==
    /\ last.op \in RecvOps
    /\ last.e \in DOMAIN seq_num /\ seq_num[last.e] = 2
    /\ last.e \in DOMAIN byte_buffer
    /\ Peer(last.e) \notin DOMAIN seq_num \cup DOMAIN byte_buffer
    /\ getattr(seq_num, Peer(last.e)) = 1

====
